---- MODULE Spec2Model ----
(***************************************************************************)
(* AllIndiaPincode: the pincode validator (validation.py), the LoadData     *)
(* store with its setup pipeline and filter, the MySingleton holder and    *)
(* the pincode_api endpoint (core.py).                                     *)
(*                                                                         *)
(* Text is a sequence of one-character strings; a LoadData object is a      *)
(* record held in the sequence objects and is referred to by its index     *)
(* (0 is None).                                                            *)
(***************************************************************************)
EXTENDS Integers, Sequences, FiniteSets, TLC

\* ------------------------------------------------------------- bounds
\* Longest request text enumerated for the endpoint.
MaxLen == 7
\* Most rows of a store enumerated for the query.
MaxRows == 3
\* Longest raw cell enumerated for the regex and format steps.
MaxCell == 4

\* The absent query parameter: a one-element sequence that is no text (a text
\* holds single characters only).
None == <<"None">>
\* A key a Python dict does not hold.
NoContent == "None"

\* ------------------------------------------------------------- text
Digits == {"0", "5"}
Alphabet == Digits \cup {"d", "+", "-", " ", "_"}

DigitVal(c) ==
    CASE c = "0" -> 0 [] c = "1" -> 1 [] c = "2" -> 2 [] c = "3" -> 3
      [] c = "4" -> 4 [] c = "5" -> 5 [] c = "6" -> 6 [] c = "7" -> 7
      [] c = "8" -> 8 [] c = "9" -> 9

IsDigit(c) == c \in {"0", "1", "2", "3", "4", "5", "6", "7", "8", "9"}

\* The texts of length k.
Texts(k) == [1..k -> Alphabet]

\* str.strip() as int() applies it: leading and trailing whitespace dropped.
RECURSIVE LStrip(_)
LStrip(s) == IF s # <<>> /\ Head(s) = " " THEN LStrip(Tail(s)) ELSE s

RECURSIVE RStrip(_)
RStrip(s) ==
    IF s # <<>> /\ s[Len(s)] = " " THEN RStrip(SubSeq(s, 1, Len(s) - 1)) ELSE s

Strip(s) == RStrip(LStrip(s))

\* The digit groups of an integer literal: digits, single underscores only
\* between two digits.
WellGrouped(s) ==
    /\ s # <<>>
    /\ IsDigit(s[1])
    /\ IsDigit(s[Len(s)])
    /\ \A i \in 1..Len(s) : IsDigit(s[i]) \/ s[i] = "_"
    /\ \A i \in 1..(Len(s) - 1) : ~(s[i] = "_" /\ s[i + 1] = "_")

RECURSIVE Magnitude(_, _)
Magnitude(s, acc) ==
    IF s = <<>> THEN acc
    ELSE IF Head(s) = "_" THEN Magnitude(Tail(s), acc)
    ELSE Magnitude(Tail(s), 10 * acc + DigitVal(Head(s)))

\* int(text): [ok, val]; ok = FALSE is the ValueError.
PyInt(text) ==
    LET s == Strip(text)
        signed == s # <<>> /\ Head(s) \in {"+", "-"}
        body == IF signed THEN Tail(s) ELSE s
    IN  IF WellGrouped(body)
        THEN [ok |-> TRUE,
              val |-> IF signed /\ Head(s) = "-"
                      THEN 0 - Magnitude(body, 0) ELSE Magnitude(body, 0)]
        ELSE [ok |-> FALSE, val |-> 0]

\* floor(log10(n)) + 1 for n > 0: the number of decimal digits of n (the
\* floating-point logarithm is exact enough for every n below 10^15).
RECURSIVE NumDigits(_)
NumDigits(n) == IF n < 10 THEN 1 ELSE 1 + NumDigits(n \div 10)

\* ------------------------------------------------------------- validator
MSG_DIGITS == "Pincode must contain only 6 digits."
MSG_INVALID == "Invalid pincode."
MSG_REQUIRED == "Pincode parameter is required."
MSG_EMPTY == "Pincode should not be empty."

\* validate_pincode counting the characters of the text instead of the digits of
\* the converted integer.
validate_pincode_text_length(pincode) ==
    IF ~PyInt(pincode).ok
    THEN [status |-> FALSE, content |-> MSG_INVALID]
    ELSE IF Len(pincode) = 6
    THEN [status |-> TRUE, content |-> NoContent]
    ELSE [status |-> FALSE, content |-> MSG_DIGITS]

\* math.log10 raises ValueError (math domain error) for n <= 0; the same
\* except clause catches it.
validate_pincode(pincode) ==
    LET pincode_str_int == PyInt(pincode)
    IN  IF ~pincode_str_int.ok \/ pincode_str_int.val <= 0
        THEN [status |-> FALSE, content |-> MSG_INVALID]
        ELSE IF NumDigits(pincode_str_int.val) = 6
        THEN [status |-> TRUE, content |-> NoContent]
        ELSE [status |-> FALSE, content |-> MSG_DIGITS]

\* ------------------------------------------------------------- cells
Upper(c) == CASE c = "a" -> "A" [] c = "b" -> "B" [] OTHER -> c
Lower(c) == CASE c = "A" -> "a" [] c = "B" -> "b" [] OTHER -> c
IsCased(c) == c \in {"a", "A", "b", "B"}

\* str.upper, str.lower
str_upper(s) == [i \in 1..Len(s) |-> Upper(s[i])]
str_lower(s) == [i \in 1..Len(s) |-> Lower(s[i])]
\* str.capitalize: first character upper case, the rest lower case.
str_capitalize(s) == [i \in 1..Len(s) |-> IF i = 1 THEN Upper(s[i]) ELSE Lower(s[i])]
\* str.title: a cased character is upper case when the character before it is
\* not cased (or there is none), lower case otherwise.
str_title(s) ==
    [i \in 1..Len(s) |->
        IF i > 1 /\ IsCased(s[i - 1]) THEN Lower(s[i]) ELSE Upper(s[i])]

string_methods(method, s) ==
    CASE method = "Title" -> str_title(s)
      [] method = "Upper" -> str_upper(s)
      [] method = "Lower" -> str_lower(s)
      [] method = "Capitalize" -> str_capitalize(s)

MatchesAt(s, pat, i) ==
    /\ i + Len(pat) - 1 <= Len(s)
    /\ \A j \in 1..Len(pat) : s[i + j - 1] = pat[j]

\* Whether the pattern (a literal, matched case-sensitively) occurs in s.
Contains(s, pat) == \E i \in 1..Len(s) : MatchesAt(s, pat, i)

\* Series.str.replace(regex, "", regex=True), that is re.sub(regex, "", s): one
\* pass from the left, each non-overlapping match deleted, the scan resuming
\* right after the match.
RECURSIVE ReSub(_, _, _)
ReSub(s, pat, i) ==
    IF i > Len(s) THEN <<>>
    ELSE IF MatchesAt(s, pat, i) THEN ReSub(s, pat, i + Len(pat))
    ELSE <<s[i]>> \o ReSub(s, pat, i + 1)

str_replace(s, pat) == ReSub(s, pat, 1)

\* ------------------------------------------------------------- LoadData
VARIABLES
    csv,              \* the source file: [readable, coercible, rows]
    regex_rule,       \* REGEX_RULE: a dict column -> pattern
    format_rule,      \* FORMAT_RULE: a dict column -> method
    objects,          \* the LoadData objects constructed so far
    instance,         \* MySingleton.instance: an index into objects, 0 for None
    load_data,        \* the module-level load_data: an index into objects
    pc,               \* where each caller of MySingleton() stands
    self,             \* the object whose setup_things a caller runs
    got,              \* what MySingleton() returned to each caller
    setup_runs,       \* how many times setup_things has been entered
    pincode,          \* the query parameter of the request being handled
    api_pc,           \* where the request stands
    is_pincode_valid, \* validate_pincode's answer for the request
    filter_calls,     \* the arguments of the request's filter_by_pincode calls
    response          \* the response of the last request or query

vars == <<csv, regex_rule, format_rule, objects, instance, load_data, pc, self,
          got, setup_runs, pincode, api_pc, is_pincode_valid, filter_calls,
          response>>

config_vars == <<csv, regex_rule, format_rule>>
holder_vars == <<instance, pc, self, got, setup_runs>>
api_vars == <<pincode, api_pc, is_pincode_valid, filter_calls>>

\* Callers of MySingleton().
NumThreads == 2
Threads == 1..NumThreads

SetupSteps == {"load", "coerce", "clean", "format"}

\* LoadData.__init__: dataframe is None. steps records the setup steps applied
\* to the dataframe since it was last read.
NewLoadData == [loaded |-> FALSE, dataframe |-> <<>>, steps |-> {}]

\* read_csv
read_csv(obj) == [loaded |-> TRUE, dataframe |-> csv.rows, steps |-> {"load"}]

\* change_datatype: the Pincode column as int.
change_datatype(obj) == [obj EXCEPT !.steps = @ \cup {"coerce"}]

\* regex_on_column
regex_on_column(obj) ==
    [obj EXCEPT
        !.dataframe =
            IF "OfficeName" \in DOMAIN regex_rule
            THEN [i \in 1..Len(@) |->
                    [@[i] EXCEPT !.OfficeName = str_replace(@, regex_rule.OfficeName)]]
            ELSE @,
        !.steps = @ \cup {"clean"}]

\* format_csv_data
format_csv_data(obj) ==
    [obj EXCEPT
        !.dataframe =
            IF "OfficeName" \in DOMAIN format_rule
            THEN [i \in 1..Len(@) |->
                    [@[i] EXCEPT !.OfficeName = string_methods(format_rule.OfficeName, @)]]
            ELSE @,
        !.steps = @ \cup {"format"}]

\* setup_things run to its end on a fresh object, for a file that loads.
setup_things(obj) == format_csv_data(regex_on_column(change_datatype(read_csv(obj))))

NotFound(key) == <<"Pincode ", key, " not found">>

\* filter_by_pincode keeping only the first matching row.
filter_by_pincode_first(obj, key) ==
    LET tmp_dataframe == SelectSeq(obj.dataframe, LAMBDA r : r.Pincode = key)
    IN  [dataframe |-> obj.dataframe,
         response |->
            IF tmp_dataframe = <<>>
            THEN [status_code |-> 404, detail |-> NotFound(key)]
            ELSE [status_code |-> 200, content |-> <<Head(tmp_dataframe)>>]]

\* filter_by_pincode without the test for an empty result.
filter_by_pincode_no_404(obj, key) ==
    [dataframe |-> obj.dataframe,
     response |-> [status_code |-> 200,
                   content |-> SelectSeq(obj.dataframe, LAMBDA r : r.Pincode = key)]]

\* filter_by_pincode filtering self.dataframe itself instead of a copy.
filter_by_pincode_in_place(obj, key) ==
    LET tmp_dataframe == SelectSeq(obj.dataframe, LAMBDA r : r.Pincode = key)
    IN  [dataframe |-> tmp_dataframe,
         response |->
            IF tmp_dataframe = <<>>
            THEN [status_code |-> 404, detail |-> NotFound(key)]
            ELSE [status_code |-> 200, content |-> tmp_dataframe]]

\* filter_by_pincode: the dataframe the object holds afterwards, and the
\* response (or the HTTPException raised). On an object whose dataframe is
\* still None the copy raises AttributeError.
filter_by_pincode(obj, key) ==
    IF ~obj.loaded
    THEN [dataframe |-> obj.dataframe,
          response |-> [status_code |-> 500, error |-> "AttributeError"]]
    ELSE LET tmp_dataframe == SelectSeq(obj.dataframe, LAMBDA r : r.Pincode = key)
         IN  [dataframe |-> obj.dataframe,
              response |->
                IF tmp_dataframe = <<>>
                THEN [status_code |-> 404, detail |-> NotFound(key)]
                ELSE [status_code |-> 200, content |-> tmp_dataframe]]

\* ------------------------------------------------------------- MySingleton
SetPc(t, where) == pc' = [pc EXCEPT ![t] = where]

\* A caller starts MySingleton().
Call(t) ==
    /\ pc[t] \in {"idle", "returned", "raised"}
    /\ SetPc(t, "check")
    /\ got' = [got EXCEPT ![t] = 0]
    /\ UNCHANGED <<config_vars, objects, instance, load_data, self, setup_runs,
                   api_vars, response>>

\* The test of cls.instance left out: every call constructs.
InstanceIsNone_always == TRUE

\* if cls.instance is None:
InstanceIsNone == instance = 0

Check(t) ==
    /\ pc[t] = "check"
    /\ SetPc(t, IF InstanceIsNone THEN "construct" ELSE "return")
    /\ UNCHANGED <<config_vars, objects, instance, load_data, self, got,
                   setup_runs, api_vars, response>>

\* cls.instance = LoadData(CSV_FILE)
Construct(t) ==
    /\ pc[t] = "construct"
    /\ objects' = Append(objects, NewLoadData)
    /\ instance' = Len(objects) + 1
    /\ SetPc(t, "setup_things")
    /\ UNCHANGED <<config_vars, load_data, self, got, setup_runs, api_vars,
                   response>>

\* cls.instance.setup_things(): the class attribute is read again.
EnterSetup(t) ==
    /\ pc[t] = "setup_things"
    /\ self' = [self EXCEPT ![t] = instance]
    /\ setup_runs' = setup_runs + 1
    /\ SetPc(t, "read_csv")
    /\ UNCHANGED <<config_vars, objects, instance, load_data, got, api_vars,
                   response>>

\* self.read_csv(cols=REQUIRED_FIELDS): a file that cannot be read raises
\* HTTPException(500) out of MySingleton().
ReadCsv(t) ==
    /\ pc[t] = "read_csv"
    /\ IF csv.readable
       THEN /\ objects' = [objects EXCEPT ![self[t]] = read_csv(@)]
            /\ SetPc(t, "change_datatype")
       ELSE /\ SetPc(t, "raised")
            /\ UNCHANGED objects
    /\ UNCHANGED <<config_vars, instance, load_data, self, got, setup_runs,
                   api_vars, response>>

\* self.change_datatype(datatype_rule = DATATYPE_RULE): astype raises on a cell
\* that does not convert, and nothing catches it.
ChangeDatatype(t) ==
    /\ pc[t] = "change_datatype"
    /\ IF csv.coercible
       THEN /\ objects' = [objects EXCEPT ![self[t]] = change_datatype(@)]
            /\ SetPc(t, "regex_on_column")
       ELSE /\ SetPc(t, "raised")
            /\ UNCHANGED objects
    /\ UNCHANGED <<config_vars, instance, load_data, self, got, setup_runs,
                   api_vars, response>>

\* self.regex_on_column(regex_rule = REGEX_RULE)
RegexOnColumn(t) ==
    /\ pc[t] = "regex_on_column"
    /\ objects' = [objects EXCEPT ![self[t]] = regex_on_column(@)]
    /\ SetPc(t, "format_csv_data")
    /\ UNCHANGED <<config_vars, instance, load_data, self, got, setup_runs,
                   api_vars, response>>

\* self.format_csv_data(format_rule = FORMAT_RULE)
FormatCsvData(t) ==
    /\ pc[t] = "format_csv_data"
    /\ objects' = [objects EXCEPT ![self[t]] = format_csv_data(@)]
    /\ SetPc(t, "return")
    /\ UNCHANGED <<config_vars, instance, load_data, self, got, setup_runs,
                   api_vars, response>>

\* return cls.instance
Return(t) ==
    /\ pc[t] = "return"
    /\ got' = [got EXCEPT ![t] = instance]
    /\ SetPc(t, "returned")
    /\ UNCHANGED <<config_vars, objects, instance, load_data, self, setup_runs,
                   api_vars, response>>

\* Keys a caller queries the store it was handed with.
QueryKeys == {555000, 550055, 999999}

\* The caller runs filter_by_pincode on what MySingleton() returned.
Query(t) ==
    /\ pc[t] = "returned"
    /\ \E key \in QueryKeys :
          LET r == filter_by_pincode(objects[got[t]], key)
          IN  /\ objects' = [objects EXCEPT ![got[t]].dataframe = r.dataframe]
              /\ response' = r.response
    /\ UNCHANGED <<config_vars, holder_vars, load_data, api_vars>>

\* No other caller is inside MySingleton().
OthersOutside(t) ==
    \A u \in Threads \ {t} : pc[u] \in {"idle", "returned", "raised"}

\* A caller starts MySingleton() while no other caller is inside it.
CallAlone(t) == OthersOutside(t) /\ Call(t)

Step(t) ==
    \/ Call(t)
    \/ Check(t)
    \/ Construct(t)
    \/ EnterSetup(t)
    \/ ReadCsv(t)
    \/ ChangeDatatype(t)
    \/ RegexOnColumn(t)
    \/ FormatCsvData(t)
    \/ Return(t)
    \/ Query(t)


\* ------------------------------------------------------------- pincode_api
NoResponse == [status_code |-> 0]
NotValidated == [status |-> FALSE, content |-> NoContent]

BadRequest(message) == [status_code |-> 400, detail |-> message]

\* A request arrives with its query parameter (None when the URL has none).
Receive(p) ==
    /\ api_pc \in {"idle", "done"}
    /\ pincode' = p
    /\ api_pc' = "received"
    /\ is_pincode_valid' = NotValidated
    /\ filter_calls' = <<>>
    /\ response' = NoResponse
    /\ UNCHANGED <<config_vars, objects, holder_vars, load_data>>

\* pincode_api: the handler has no await, so it runs as one step.
PincodeApi ==
    /\ api_pc = "received"
    /\ api_pc' = "done"
    /\ IF pincode = None
       THEN /\ response' = BadRequest(MSG_REQUIRED)
            /\ UNCHANGED <<objects, is_pincode_valid, filter_calls>>
       ELSE IF pincode = <<>>
       THEN /\ response' = BadRequest(MSG_EMPTY)
            /\ UNCHANGED <<objects, is_pincode_valid, filter_calls>>
       ELSE /\ is_pincode_valid' = validate_pincode(pincode)
            /\ IF is_pincode_valid'.status = FALSE
               THEN /\ response' = BadRequest(is_pincode_valid'.content)
                    /\ UNCHANGED <<objects, filter_calls>>
               ELSE LET key == PyInt(pincode).val
                        r == filter_by_pincode(objects[load_data], key)
                    IN  /\ filter_calls' = Append(filter_calls, key)
                        /\ objects' = [objects EXCEPT ![load_data].dataframe = r.dataframe]
                        /\ response' = r.response
    /\ UNCHANGED <<config_vars, holder_vars, load_data, pincode>>

\* ------------------------------------------------------------- configurations
NoRule == [c \in {} |-> <<>>]
Rule(x) == [c \in {"OfficeName"} |-> x]

Methods == {"Title", "Upper", "Lower", "Capitalize"}

FixtureRows ==
    << [OfficeName |-> <<"a", "b", " ", "A">>, Pincode |-> 555000],
       [OfficeName |-> <<"b", " ", "a">>, Pincode |-> 550055],
       [OfficeName |-> <<"a">>, Pincode |-> 555000] >>

Fixture == [readable |-> TRUE, coercible |-> TRUE, rows |-> FixtureRows]

ThreadsIdle ==
    /\ pc = [t \in Threads |-> "idle"]
    /\ self = [t \in Threads |-> 0]
    /\ got = [t \in Threads |-> 0]

NoRequest ==
    /\ pincode = None
    /\ api_pc = "idle"
    /\ is_pincode_valid = NotValidated
    /\ filter_calls = <<>>
    /\ response = NoResponse

\* The process before its first MySingleton() call, over a file that loads, a
\* file that cannot be read and a file with a cell that does not convert.
InitHolder ==
    /\ csv \in {[readable |-> r, coercible |-> c, rows |-> FixtureRows] :
                    r \in BOOLEAN, c \in BOOLEAN}
    /\ regex_rule = Rule(<<" ", "A">>)
    /\ format_rule = Rule("Title")
    /\ objects = <<>>
    /\ instance = 0
    /\ load_data = 0
    /\ setup_runs = 0
    /\ ThreadsIdle
    /\ NoRequest

NextSeq ==
    \E t \in Threads :
        \/ CallAlone(t)
        \/ Check(t)
        \/ Construct(t)
        \/ EnterSetup(t)
        \/ ReadCsv(t)
        \/ ChangeDatatype(t)
        \/ RegexOnColumn(t)
        \/ FormatCsvData(t)
        \/ Return(t)
        \/ Query(t)
NextConc == \E t \in Threads : Step(t)

\* Callers one after the other.
SpecSeq == InitHolder /\ [][NextSeq]_vars
\* Callers interleaved at statement boundaries.
SpecConc == InitHolder /\ [][NextConc]_vars

\* One caller, over every one-row file, pattern and format method in the bounds.
CellAlphabet == {"a", "A", "b", " "}
Cells == UNION {[1..k -> CellAlphabet] : k \in 0..MaxCell}
MaxPattern == 2
Patterns == UNION {[1..k -> {"a", "A", "b"}] : k \in 1..MaxPattern}

InitSetup ==
    /\ csv \in {[readable |-> TRUE, coercible |-> TRUE,
                 rows |-> << [OfficeName |-> cell, Pincode |-> 555000] >>] :
                    cell \in Cells}
    /\ regex_rule \in {Rule(p) : p \in Patterns}
    /\ format_rule \in {NoRule} \cup {Rule(m) : m \in Methods}
    /\ objects = <<>>
    /\ instance = 0
    /\ load_data = 0
    /\ setup_runs = 0
    /\ ThreadsIdle
    /\ NoRequest

NextSetup == Step(1)

SpecSetup == InitSetup /\ [][NextSetup]_vars

\* The process after a successful import (load_data = MySingleton() has run),
\* with one request received.
InitApi ==
    /\ csv = Fixture
    /\ regex_rule = Rule(<<" ", "A">>)
    /\ format_rule = Rule("Title")
    /\ objects = <<setup_things(NewLoadData)>>
    /\ instance = 1
    /\ load_data = 1
    /\ setup_runs = 1
    /\ ThreadsIdle
    /\ \/ pincode = None
       \/ \E k \in 0..MaxLen : pincode \in Texts(k)
    /\ api_pc = "received"
    /\ is_pincode_valid = NotValidated
    /\ filter_calls = <<>>
    /\ response = NoResponse

NextApi == PincodeApi

SpecApi == InitApi /\ [][NextApi]_vars

\* The process after a successful import over every store in the bounds,
\* serving requests one after the other.
StoreKeys == {555000, 550055}
StoreRows == {[OfficeName |-> n, Pincode |-> k] : n \in {<<"A">>, <<"B">>}, k \in StoreKeys}
Stores == UNION {[1..k -> StoreRows] : k \in 0..MaxRows}

Requests ==
    { None, <<>>,
      <<"5", "5", "5", "0", "0", "0">>,
      <<"5", "5", "0", "0", "5", "5">>,
      <<"9", "9", "9", "9", "9", "9">>,
      <<"5", "3", "3", "3">>,
      <<"a", "b", "c", "d", "e", "d">> }

InitStore ==
    /\ csv \in {[readable |-> TRUE, coercible |-> TRUE, rows |-> rows] : rows \in Stores}
    /\ regex_rule = NoRule
    /\ format_rule = NoRule
    /\ objects = <<setup_things(NewLoadData)>>
    /\ instance = 1
    /\ load_data = 1
    /\ setup_runs = 1
    /\ ThreadsIdle
    /\ NoRequest

NextStore ==
    \/ \E p \in Requests : Receive(p)
    \/ PincodeApi

SpecStore == InitStore /\ [][NextStore]_vars

\* ------------------------------------------------------------- claims
IsText(p) == p # None
AllDigits(p) == IsText(p) /\ p # <<>> /\ \A i \in 1..Len(p) : IsDigit(p[i])
Validated == api_pc = "done" /\ IsText(pincode) /\ pincode # <<>>

\* C1: for every text of exactly 6 decimal digits (a leading 0 included),
\* validate_pincode returns status True.
C1_SixDigitsAreValid ==
    (Validated /\ AllDigits(pincode) /\ Len(pincode) = 6)
        => is_pincode_valid.status = TRUE

\* C2: for every text made only of decimal digits whose digit count is not 6,
\* validate_pincode returns status False with the digit-count message.
C2_OtherDigitCountsRejected ==
    (Validated /\ AllDigits(pincode) /\ Len(pincode) # 6)
        => is_pincode_valid = [status |-> FALSE, content |-> MSG_DIGITS]

\* C3: for every text that is not a plain decimal digit string (signed, padded
\* and underscore-separated forms included), validate_pincode returns status
\* False with the format message.
C3_NonDigitTextRejected ==
    (Validated /\ ~AllDigits(pincode))
        => is_pincode_valid = [status |-> FALSE, content |-> MSG_INVALID]

\* C4: filter_by_pincode is called only for a request whose parameter is
\* present, non-empty and accepted by validate_pincode, and then once, with an
\* integer in 100000..999999; every other request ends with status 400 and the
\* message of its case (required, should not be empty, the validator's own).
C4_StoreQueriedOnlyWhenValid ==
    api_pc = "done" =>
        IF filter_calls # <<>>
        THEN /\ IsText(pincode)
             /\ pincode # <<>>
             /\ is_pincode_valid.status = TRUE
             /\ Len(filter_calls) = 1
             /\ filter_calls[1] \in 100000..999999
             /\ response.status_code \in {200, 404}
        ELSE /\ response.status_code = 400
             /\ response.detail =
                    IF pincode = None THEN MSG_REQUIRED
                    ELSE IF pincode = <<>> THEN MSG_EMPTY
                    ELSE is_pincode_valid.content
             /\ response.detail \in {MSG_REQUIRED, MSG_EMPTY, MSG_DIGITS, MSG_INVALID}

\* A signed text the validator accepts has reached the store as 555000.
C4_Witness ==
    /\ api_pc = "done"
    /\ pincode = <<"+", "5", "5", "5", "0", "0", "0">>
    /\ filter_calls = <<555000>>
    /\ response.status_code = 200

\* The rows of the store, as served to requests.
Store == objects[load_data].dataframe
Matching(key) == {i \in 1..Len(Store) : Store[i].Pincode = key}
\* The j-th smallest index of a matching row.
NthMatching(key, j) ==
    CHOOSE i \in Matching(key) : Cardinality({k \in Matching(key) : k < i}) = j - 1
Queried == api_pc = "done" /\ filter_calls # <<>>

\* C5: for a key that occurs in the Pincode column, filter_by_pincode returns a
\* 200 result holding all and only the records whose Pincode equals the key, in
\* the order of the store.
C5_AllAndOnlyMatchingRows ==
    (Queried /\ Matching(filter_calls[1]) # {}) =>
        /\ response.status_code = 200
        /\ Len(response.content) = Cardinality(Matching(filter_calls[1]))
        /\ \A j \in 1..Len(response.content) :
              response.content[j] = Store[NthMatching(filter_calls[1], j)]

\* Two matching rows with another row between them have been returned.
C5_Witness ==
    /\ Queried
    /\ Len(Store) = 3
    /\ Matching(filter_calls[1]) = {1, 3}
    /\ Store[1] # Store[3]
    /\ response.status_code = 200

\* C6: for a key that occurs in no record, filter_by_pincode returns no records
\* and fails with 404 "Pincode <key> not found" naming the key; a 404 is
\* produced only when zero records match.
C6_NotFoundIffNoMatch ==
    api_pc = "done" =>
        /\ (filter_calls # <<>> /\ Matching(filter_calls[1]) = {}) =>
              response = [status_code |-> 404,
                          detail |-> <<"Pincode ", filter_calls[1], " not found">>]
        /\ response.status_code = 404 =>
              filter_calls # <<>> /\ Matching(filter_calls[1]) = {}

\* A key absent from a store that holds other rows has been answered 404.
C6_Witness ==
    /\ Queried
    /\ Len(Store) = 3
    /\ filter_calls = <<999999>>
    /\ response.status_code = 404

\* C7: every store MySingleton() hands to a caller, and every store
\* filter_by_pincode runs on, has completed all four setup steps.
C7_HandedStoreIsSetUp ==
    \A t \in Threads :
        pc[t] = "returned" =>
            /\ objects[got[t]].loaded
            /\ objects[got[t]].steps = SetupSteps

\* C8: after setup_things completes, no cell of a column with a regex rule
\* contains a substring matching the column's pattern.
C8_NoMatchAfterSetup ==
    \A t \in Threads :
        pc[t] = "returned" =>
            \A i \in 1..Len(objects[got[t]].dataframe) :
                ~Contains(objects[got[t]].dataframe[i].OfficeName, regex_rule.OfficeName)

\* C9: once setup has completed, no request (answered 200, 404 or 400) changes
\* the stored records.
C9_RequestsLeaveStore == [][objects' = objects]_vars

\* A request has been answered with fewer rows than the store holds.
C9_Witness ==
    /\ Queried
    /\ response.status_code = 200
    /\ Len(response.content) < Len(Store)

\* C10: for calls of MySingleton() made one after the other, the first
\* constructs the store and runs setup_things once, and every later call
\* returns that same instance: one object, one setup run.
C10_SetupRunsOnce ==
    /\ Len(objects) <= 1
    /\ setup_runs <= 1
    /\ (\E t \in Threads : pc[t] \in {"returned", "raised"}) =>
          Len(objects) = 1 /\ setup_runs = 1 /\ instance = 1
    /\ \A t \in Threads : pc[t] = "returned" => got[t] = 1

\* Every caller has been handed the one instance.
C10_Witness ==
    /\ \A t \in Threads : pc[t] = "returned" /\ got[t] = 1
    /\ setup_runs = 1
    /\ objects[1].steps = SetupSteps

====
